---------------------------- MODULE Spec2Model ----------------------------
(***************************************************************************)
(* extol_image_font: bitmap-font layout resolution (ImageFontLayout ::     *)
(* into_char_map), font construction (ImageFont::from_char_map), text      *)
(* compositing (render_text) and the PostUpdate systems that drive it      *)
(* (mark_changed_fonts_as_dirty, render_sprites, render_ui_images).        *)
(*                                                                         *)
(* f32 values (Rect corners, font_height) are fixed-point: an integer      *)
(* number of 1/Denom-pixel units.  Integer pixel counts (u32) are plain    *)
(* integers.  Strings are sequences of one-character strings.              *)
(***************************************************************************)
EXTENDS Integers, Sequences, FiniteSets, TLC

VARIABLES
    pc,               \* position of the call / of the PostUpdate pass
    layout,           \* ImageFontLayout handed to into_char_map (self)
    size,             \* UVec2 handed to into_char_map
    char_map,         \* what into_char_map returned (or that it panicked)
    grid,             \* into_char_map's locals for the Automatic variant
    image_font_text,  \* ImageFontText handed to render_text
    image_fonts,      \* Assets<ImageFont>
    images,           \* Assets<Image>
    rendered,         \* what render_text returned (or that it panicked)
    texts,            \* entities carrying an ImageFontText
    events,           \* unread AssetEvent<ImageFont>s
    pass_events,      \* the events the running pass has read
    logged,           \* per entity, the error! record the running pass wrote
    pass_start        \* texts and stores as the running pass found them

vars == <<pc, layout, size, char_map, grid, image_font_text, image_fonts,
          images, rendered, texts, events, pass_events, logged, pass_start>>

(***************************************************************************)
(* Bounds of the model.                                                    *)
(***************************************************************************)
Denom == 2          \* sub-pixel units per pixel of the fixed-point f32s
MaxDescLen == 4     \* longest enumerated grid description
MaxDim == 4         \* largest image width / height handed to into_char_map
MaxTextLen == 3     \* longest enumerated text handed to render_text
MaxEvents == 2      \* most AssetEvent<ImageFont>s left unread between passes

NL == "\n"
\* Option<T>
None == [kind |-> "None"]
Some(v) == [kind |-> "Some", v |-> v]
\* Assets<T>::get finds nothing
NoAsset == [kind |-> "NoAsset"]
\* a variable the running call or pass does not use
Idle == [kind |-> "Idle"]

SeqsUpTo(S, n) == UNION {[1..k -> S] : k \in 0..n}

Max(a, b) == IF a >= b THEN a ELSE b
Min(a, b) == IF a <= b THEN a ELSE b

(***************************************************************************)
(* f32 <-> u32 conversions.                                                *)
(***************************************************************************)
\* `n as f32` for an integer n
AsF32(n) == n * Denom
\* `v.ceil() as u32`: ceiling, negatives saturate to 0
CeilU32(v) == IF v <= 0 THEN 0 ELSE (v + Denom - 1) \div Denom
\* `v as u32`: truncation toward zero, negatives saturate to 0
AsU32(v) == IF v <= 0 THEN 0 ELSE v \div Denom

Vec2(x, y) == [x |-> x, y |-> y]
\* Rect::from_corners / Rect::new: the corners are ordered componentwise
RectFromCorners(p0, p1) ==
    [min |-> Vec2(Min(p0.x, p1.x), Min(p0.y, p1.y)),
     max |-> Vec2(Max(p0.x, p1.x), Max(p0.y, p1.y))]
RectNew(x0, y0, x1, y1) == RectFromCorners(Vec2(x0, y0), Vec2(x1, y1))
RectWidth(r) == r.max.x - r.min.x
RectHeight(r) == r.max.y - r.min.y
\* URect::as_rect / UVec2::as_vec2: componentwise, no reordering
AsVec2(u) == Vec2(AsF32(u.x), AsF32(u.y))
AsRect(u) == [min |-> AsVec2(u.min), max |-> AsVec2(u.max)]

\* a map whose insert keeps the first value written for a key
MapInsertKeepsFirst(m, k, v) ==
    [c \in DOMAIN m \cup {k} |-> IF c \in DOMAIN m THEN m[c] ELSE v]

\* HashMap::insert: a later insert of the same key overwrites
MapInsert(m, k, v) == [c \in DOMAIN m \cup {k} |-> IF c = k THEN v ELSE m[c]]
EmptyMap == [c \in {} |-> 0]

(***************************************************************************)
(* ImageFontLayout::into_char_map                                          *)
(***************************************************************************)
\* a strip_prefix-like trim that removes one leading newline only
trim_start_once(s) == IF s # <<>> /\ Head(s) = NL THEN Tail(s) ELSE s

RECURSIVE trim_start_matches(_)
trim_start_matches(s) ==
    IF s # <<>> /\ Head(s) = NL THEN trim_start_matches(Tail(s)) ELSE s

RECURSIVE trim_end_matches(_)
trim_end_matches(s) ==
    IF s # <<>> /\ s[Len(s)] = NL
    THEN trim_end_matches(SubSeq(s, 1, Len(s) - 1)) ELSE s

\* the `str` the Automatic arm works on
Trimmed(s) == trim_end_matches(trim_start_matches(s))

\* str::lines(): split at "\n"; a final empty line is not produced
RECURSIVE lines(_)
lines(s) ==
    IF s = <<>> THEN <<>>
    ELSE LET nls == {i \in 1..Len(s) : s[i] = NL} IN
         IF nls = {} THEN <<s>>
         ELSE LET i == CHOOSE j \in nls : \A k \in nls : j <= k IN
              <<SubSeq(s, 1, i - 1)>> \o lines(SubSeq(s, i + 1, Len(s)))

\* .map(|l| l.chars().count()).max(): None for no lines
RECURSIVE MaxCount(_)
MaxCount(ls) ==
    IF ls = <<>> THEN None
    ELSE LET rest == MaxCount(Tail(ls)) IN
         IF rest = None THEN Some(Len(Head(ls)))
         ELSE Some(Max(Len(Head(ls)), rest.v))

\* the value .expect() unwraps
max_chars_per_line(s) == MaxCount(lines(Trimmed(s))).v
line_count(s) == Len(lines(Trimmed(s)))
rect_width(s, sz) == AsF32(sz.x \div max_chars_per_line(s))
rect_height(s, sz) == AsF32(sz.y \div line_count(s))

\* the inner loop: one line's characters, left to right
RECURSIVE InsertLine(_, _, _, _, _, _)
InsertLine(rect_map, line, row, col, rw, rh) ==
    IF col >= Len(line) THEN rect_map
    ELSE InsertLine(
            MapInsert(rect_map, line[col + 1],
                      RectNew(rw * col, rh * row, rw * (col + 1), rh * (row + 1))),
            line, row, col + 1, rw, rh)

\* the outer loop: the lines, top to bottom
RECURSIVE InsertLines(_, _, _, _, _)
InsertLines(rect_map, ls, row, rw, rh) ==
    IF row >= Len(ls) THEN rect_map
    ELSE InsertLines(InsertLine(rect_map, ls[row + 1], row, 0, rw, rh),
                     ls, row + 1, rw, rh)

Panicked(msg) == [kind |-> "Panic", msg |-> msg]

Automatic(s, sz) ==
    IF MaxCount(lines(Trimmed(s))) = None
    THEN Panicked("can't create character map from an empty string")
    ELSE [kind |-> "Ok",
          map |-> InsertLines(EmptyMap, lines(Trimmed(s)), 0,
                              rect_width(s, sz), rect_height(s, sz))]

ManualMonospace(msize, coords) ==
    [kind |-> "Ok",
     map |-> [c \in DOMAIN coords |->
                RectFromCorners(AsVec2(coords[c]),
                                AsVec2(Vec2(msize.x + coords[c].x,
                                            msize.y + coords[c].y)))]]

Manual(urect_map) ==
    [kind |-> "Ok", map |-> [k \in DOMAIN urect_map |-> AsRect(urect_map[k])]]

into_char_map(self, sz) ==
    CASE self.kind = "Automatic" -> Automatic(self.str, sz)
      [] self.kind = "ManualMonospace" -> ManualMonospace(self.size, self.coords)
      [] self.kind = "Manual" -> Manual(self.rects)

\* the Automatic arm's locals, as far as the call got
GridLocals(self, sz) ==
    IF self.kind # "Automatic" THEN Idle
    ELSE IF MaxCount(lines(Trimmed(self.str))) = None
    THEN None
    ELSE [kind |-> "Grid",
          max_chars_per_line |-> max_chars_per_line(self.str),
          line_count |-> line_count(self.str),
          rect_width |-> rect_width(self.str, sz),
          rect_height |-> rect_height(self.str, sz)]

(***************************************************************************)
(* Layout inputs.                                                          *)
(***************************************************************************)
GridChars == {"A", "B", " ", NL}
ExampleGrid == <<"A", "B", NL, "C", "D">>
Descriptions == SeqsUpTo(GridChars, MaxDescLen) \cup {ExampleGrid}

URect(x0, y0, x1, y1) == [min |-> Vec2(x0, y0), max |-> Vec2(x1, y1)]

MonospaceLayouts ==
    {[kind |-> "ManualMonospace", size |-> Vec2(1, 2),
      coords |-> [c \in {"a", "b"} |-> IF c = "a" THEN Vec2(0, 0) ELSE Vec2(1, 0)]],
     [kind |-> "ManualMonospace", size |-> Vec2(0, 1),
      coords |-> [c \in {"a"} |-> Vec2(2, 0)]],
     [kind |-> "ManualMonospace", size |-> Vec2(4, 8),
      coords |-> [c \in {"a", "b"} |-> IF c = "a" THEN Vec2(0, 0) ELSE Vec2(10, 0)]]}

ManualLayouts ==
    {[kind |-> "Manual",
      rects |-> [c \in {"a", "b"} |->
                   IF c = "a" THEN URect(0, 0, 1, 1) ELSE URect(1, 0, 3, 2)]],
     [kind |-> "Manual", rects |-> [c \in {"a"} |-> URect(2, 1, 1, 2)]],
     [kind |-> "Manual", rects |-> EmptyMap]}

Layouts ==
    {[kind |-> "Automatic", str |-> d] : d \in Descriptions}
        \cup MonospaceLayouts \cup ManualLayouts

Sizes == {Vec2(w, h) : w \in 0..MaxDim, h \in 0..MaxDim}

(***************************************************************************)
(* SpecLayout: into_char_map applied to every enumerated layout and size.  *)
(***************************************************************************)
InitLayout ==
    /\ pc = "layout"
    /\ layout \in Layouts
    /\ size \in Sizes
    /\ char_map = Idle
    /\ grid = Idle
    /\ image_font_text = Idle
    /\ image_fonts = Idle
    /\ images = Idle
    /\ rendered = Idle
    /\ texts = Idle
    /\ events = Idle
    /\ pass_events = Idle
    /\ logged = Idle
    /\ pass_start = Idle

IntoCharMap ==
    /\ pc = "layout"
    /\ pc' = "resolved"
    /\ char_map' = into_char_map(layout, size)
    /\ grid' = GridLocals(layout, size)
    /\ UNCHANGED <<layout, size, image_font_text, image_fonts, images,
                   rendered, texts, events, pass_events, logged, pass_start>>

NextLayout == IntoCharMap

SpecLayout == InitLayout /\ [][NextLayout]_vars


(***************************************************************************)
(* Images.  A pixel (one Rgba<u8>) is an integer, 0 the transparent black  *)
(* of a fresh buffer; data is row-major.                                   *)
(***************************************************************************)
\* image::RgbaImage::new: every pixel zero
NewImage(w, h) == [width |-> w, height |-> h, data |-> [k \in 1..(w * h) |-> 0]]
GetPixel(img, x, y) == img.data[y * img.width + x + 1]

\* GenericImage::copy_from of other.view(vx, vy, w, h) to (x, y); the caller
\* has checked that both blocks fit
copy_from(self, other, vx, vy, w, h, x, y) ==
    [self EXCEPT !.data =
        [k \in 1..(self.width * self.height) |->
            LET px == (k - 1) % self.width
                py == (k - 1) \div self.width
            IN IF px >= x /\ px < x + w /\ py >= y /\ py < y + h
               THEN GetPixel(other, vx + (px - x), vy + (py - y))
               ELSE self.data[k]]]

\* the source pixel FilterType::Nearest picks for output coordinate out
NearestIndex(out, old, new) == Min(((2 * out + 1) * old) \div (2 * new), old - 1)

\* imageops::resize(.., FilterType::Nearest)
resize(img, nwidth, nheight) ==
    [width |-> nwidth, height |-> nheight,
     data |-> [k \in 1..(nwidth * nheight) |->
                 GetPixel(img,
                          NearestIndex((k - 1) % nwidth, img.width, nwidth),
                          NearestIndex((k - 1) \div nwidth, img.height, nheight))]]

(***************************************************************************)
(* ImageFont and render_text                                               *)
(***************************************************************************)
\* a filter that also drops a character already kept
RECURSIVE filter_string_dedup(_, _)
filter_string_dedup(self, s) ==
    IF s = <<>> THEN <<>>
    ELSE LET init == filter_string_dedup(self, SubSeq(s, 1, Len(s) - 1))
             c == s[Len(s)]
         IN IF c \in DOMAIN self.index_map /\ \A i \in 1..Len(init) : init[i] # c
            THEN Append(init, c) ELSE init

\* ImageFont::filter_string
filter_string(self, s) ==
    SelectSeq(s, LAMBDA c : c \in DOMAIN self.index_map)

\* layout.textures[image_font.index_map[&c]]
GlyphRect(image_font, c) ==
    image_font.layout.textures[image_font.index_map[c] + 1]

\* .reduce(f32::max)
RECURSIVE ReduceMax(_)
ReduceMax(vs) ==
    IF Len(vs) = 1 THEN vs[1]
    ELSE Max(ReduceMax(SubSeq(vs, 1, Len(vs) - 1)), vs[Len(vs)])

\* .reduce(|a, b| a + b)
RECURSIVE ReduceSum(_)
ReduceSum(vs) ==
    IF Len(vs) = 1 THEN vs[1]
    ELSE ReduceSum(SubSeq(vs, 1, Len(vs) - 1)) + vs[Len(vs)]

OutputHeight(image_font, text) ==
    CeilU32(ReduceMax([i \in 1..Len(text) |->
                          RectHeight(GlyphRect(image_font, text[i]))]))
OutputWidth(image_font, text) ==
    CeilU32(ReduceSum([i \in 1..Len(text) |->
                          RectWidth(GlyphRect(image_font, text[i]))]))

Ok(image, sampler) == [kind |-> "Ok", image |-> image, sampler |-> sampler]
Err(e) == [kind |-> "Err", error |-> e]

\* the blit loop from character i on, cursor at x
RECURSIVE BlitLoop(_, _, _, _, _, _)
BlitLoop(image_font, font_texture, text, i, x, output_image) ==
    IF i > Len(text) THEN [kind |-> "Ok", image |-> output_image, x |-> x]
    ELSE LET rect == GlyphRect(image_font, text[i])
             width == CeilU32(RectWidth(rect))
             height == CeilU32(RectHeight(rect))
             vx == AsU32(rect.min.x)
             vy == AsU32(rect.min.y)
         IN IF ~(vx + width <= font_texture.width
                    /\ vy + height <= font_texture.height)
            THEN \* GenericImageView::view asserts that the block is inside
                 Panicked("assertion failed: view out of bounds")
            ELSE IF output_image.width < width + x
                       \/ output_image.height < height
            THEN \* copy_from: the block does not fit into the output
                 Err("CopyFailure")
            ELSE BlitLoop(image_font, font_texture, text, i + 1, x + width,
                          copy_from(output_image, font_texture,
                                    vx, vy, width, height, x, 0))

\* `width as u32` of w0 as f32 * font_height / h0 as f32, for h0 > 0
RescaleWidth(w0, h0, font_height) == (w0 * font_height) \div (h0 * Denom)

\* the optional rescale of the composited buffer
Rescale(output_image, font_height) ==
    IF font_height = None THEN [kind |-> "Ok", image |-> output_image]
    ELSE IF output_image.height = 0
    THEN IF output_image.width = 0
         THEN \* 0.0 / 0.0 is NaN, and NaN as u32 is 0
              [kind |-> "Ok",
               image |-> resize(output_image, 0, AsU32(font_height.v))]
         ELSE \* x / 0.0 is infinite: a resample of no rows to u32::MAX columns
              Panicked("resize of a zero-height image")
    ELSE [kind |-> "Ok",
          image |-> resize(output_image,
                           RescaleWidth(output_image.width, output_image.height,
                                        font_height.v),
                           AsU32(font_height.v))]

\* render_text from the blit loop on
Composite(image_font, font_texture, text, font_height) ==
    LET blit == BlitLoop(image_font, font_texture, text, 1, 0,
                         NewImage(OutputWidth(image_font, text),
                                  OutputHeight(image_font, text)))
    IN IF blit.kind # "Ok" THEN blit
       ELSE LET scaled == Rescale(blit.image, font_height)
            IN IF scaled.kind # "Ok" THEN scaled
               ELSE Ok(scaled.image, "nearest")

\* a render_text that answers an empty text before it looks up the texture
render_text_filter_first(ift, fonts, imgs) ==
    IF fonts[ift.font] = NoAsset THEN Err("MissingImageFontAsset")
    ELSE IF filter_string(fonts[ift.font], ift.text) = <<>>
    THEN Ok(NewImage(0, 0), "default")
    ELSE Err("MissingTextureAsset")

\* a render_text without the early return for an empty filtered text:
\* .reduce(..).unwrap() then meets None
render_text_no_short_circuit(ift, fonts, imgs) ==
    IF fonts[ift.font] = NoAsset THEN Err("MissingImageFontAsset")
    ELSE LET image_font == fonts[ift.font] IN
    IF imgs[image_font.texture] = NoAsset THEN Err("MissingTextureAsset")
    ELSE LET font_texture == imgs[image_font.texture]
             text == filter_string(image_font, ift.text)
    IN IF text = <<>>
       THEN Panicked("called Option::unwrap() on a None value")
       ELSE Composite(image_font, font_texture, text, ift.font_height)

render_text(ift, fonts, imgs) ==
    IF fonts[ift.font] = NoAsset THEN Err("MissingImageFontAsset")
    ELSE LET image_font == fonts[ift.font] IN
    IF imgs[image_font.texture] = NoAsset THEN Err("MissingTextureAsset")
    ELSE LET font_texture == imgs[image_font.texture]
             text == filter_string(image_font, ift.text)
    IN IF text = <<>> THEN Ok(NewImage(0, 0), "default")
       ELSE IF Len(font_texture.data) < font_texture.width * font_texture.height
       THEN Err("UnknownError")
       ELSE Composite(image_font, font_texture, text, ift.font_height)

(***************************************************************************)
(* render_text's inputs.                                                   *)
(***************************************************************************)
FontIds == {1, 2}
TextureIds == {1, 2}

\* a loaded texture whose pixels are all different and none transparent
SourceImage(w, h) == [width |-> w, height |-> h, data |-> [k \in 1..(w * h) |-> k]]
SourceImages ==
    {SourceImage(1, 1), SourceImage(2, 1), SourceImage(3, 2), SourceImage(4, 3)}

Font(texture, chars, rect_of) ==
    LET order == CHOOSE o \in [1..Cardinality(chars) -> chars] :
                    \A c \in chars : \E i \in DOMAIN o : o[i] = c
    IN [layout |-> [textures |-> [i \in DOMAIN order |-> rect_of[order[i]]]],
        texture |-> texture,
        index_map |-> [c \in chars |->
                          (CHOOSE i \in DOMAIN order : order[i] = c) - 1]]

\* whole-pixel glyphs of different sizes
FontAB ==
    Font(1, {"a", "b"},
         [c \in {"a", "b"} |->
            IF c = "a" THEN RectNew(AsF32(0), AsF32(0), AsF32(1), AsF32(1))
            ELSE RectNew(AsF32(1), AsF32(0), AsF32(3), AsF32(2))])
\* one glyph, wider than tall
FontA ==
    Font(1, {"a"}, [c \in {"a"} |-> RectNew(AsF32(0), AsF32(0), AsF32(3), AsF32(2))])
\* glyph edges between pixels
FontFractional ==
    Font(1, {"a", "b"},
         [c \in {"a", "b"} |->
            IF c = "a" THEN RectNew(0, 0, 1, AsF32(1))
            ELSE RectNew(1, 0, AsF32(2), AsF32(1) + 1)])
\* a glyph of no width and no height
FontZero ==
    Font(1, {"a"}, [c \in {"a"} |-> RectNew(AsF32(1), AsF32(1), AsF32(1), AsF32(1))])
\* no glyph at all
FontEmpty == Font(1, {}, EmptyMap)

Fonts == {FontAB, FontA, FontFractional, FontZero, FontEmpty}

TextChars == {"a", "b", "X"}
Texts == SeqsUpTo(TextChars, MaxTextLen)
FontHeights == {None, Some(AsF32(1)), Some(AsF32(2)), Some(AsF32(3)), Some(AsF32(1) + 1)}

(***************************************************************************)
(* SpecRender: render_text applied to every enumerated request and store.  *)
(***************************************************************************)
InitRender ==
    /\ pc = "request"
    /\ \E t \in Texts, h \in FontHeights :
          image_font_text = [text |-> t, font |-> 1, font_height |-> h]
    /\ \E f \in Fonts \cup {NoAsset} :
          image_fonts = [id \in FontIds |-> IF id = 1 THEN f ELSE NoAsset]
    /\ \E img \in SourceImages \cup {NoAsset} :
          images = [id \in TextureIds |-> IF id = 1 THEN img ELSE NoAsset]
    /\ rendered = Idle
    /\ layout = Idle
    /\ size = Idle
    /\ char_map = Idle
    /\ grid = Idle
    /\ texts = Idle
    /\ events = Idle
    /\ pass_events = Idle
    /\ logged = Idle
    /\ pass_start = Idle

RenderText ==
    /\ pc = "request"
    /\ pc' = "rendered"
    /\ rendered' = render_text(image_font_text, image_fonts, images)
    /\ UNCHANGED <<layout, size, char_map, grid, image_font_text, image_fonts,
                   images, texts, events, pass_events, logged, pass_start>>

NextRender == RenderText

SpecRender == InitRender /\ [][NextRender]_vars

(***************************************************************************)
(* The plugin at work: the asset stores, the entities, and the PostUpdate  *)
(* pass mark_changed_fonts_as_dirty -> render_sprites / render_ui_images.   *)
(***************************************************************************)
\* entity 1 carries a Handle<Image> (a sprite), entity 2 a UiImage
Entities == {1, 2}
Sprites == {1}
UiImages == {2}
\* Handle::default(): no image in the store
DefaultHandle == 0
\* handles Assets<Image>::add can hand out
RenderedIds == {3, 4, 5}
ImageIds == TextureIds \cup RenderedIds

\* an index_map that numbers every character 0
from_char_map_same_index(texture, sz, map, order) ==
    [layout |-> [textures |-> [i \in DOMAIN order |-> map[order[i]]]],
     texture |-> texture,
     index_map |-> [c \in DOMAIN map |-> 0]]

\* ImageFont::from_char_map; order is the order char_map.iter() happens to take
from_char_map(texture, sz, map, order) ==
    [layout |-> [textures |-> [i \in DOMAIN order |-> map[order[i]]]],
     texture |-> texture,
     index_map |-> [c \in DOMAIN map |->
                       (CHOOSE i \in DOMAIN order : order[i] = c) - 1]]

IterOrders(map) ==
    {o \in [1..Cardinality(DOMAIN map) -> DOMAIN map] :
        \A c \in DOMAIN map : \E i \in DOMAIN o : o[i] = c}

\* ImageFontLoader::load after into_char_map returned: the font is built
\* from the map, whatever order the map iterates in
FromCharMap ==
    /\ pc = "resolved"
    /\ char_map.kind = "Ok"
    /\ pc' = "built"
    /\ \E order \in IterOrders(char_map.map) :
          image_fonts' = [id \in FontIds |->
                            IF id = 1 THEN from_char_map(1, size, char_map.map, order)
                            ELSE NoAsset]
    /\ UNCHANGED <<layout, size, char_map, grid, image_font_text, images,
                   rendered, texts, events, pass_events, logged, pass_start>>

NextLoader == IntoCharMap \/ FromCharMap

SpecLoader == InitLayout /\ [][NextLoader]_vars

\* what the loader finds on disk: a layout and the image it names
DiskLayouts ==
    {[kind |-> "Automatic", str |-> <<"a", "b">>],
     [kind |-> "Automatic", str |-> <<NL, "a", NL>>],
     [kind |-> "Manual", rects |-> [c \in {"a"} |-> URect(0, 0, 3, 1)]]}
DiskImage == SourceImage(2, 2)

\* the ids under which a program inserts and removes fonts itself; the
\* other font only ever comes from the loader
ProgramFontIds == {1}

\* fonts a program builds itself and puts into Assets<ImageFont>
BuiltFonts ==
    {Font(2, {"a"}, [c \in {"a"} |-> RectNew(AsF32(0), AsF32(0), AsF32(1), AsF32(2))])}

EntityTexts == {<<"a">>, <<"a", "b">>}

Event(kind, id) == [kind |-> kind, id |-> id]

\* only a Modified event counts as a change of the font
changed_fonts_modified_only(evs) ==
    {ev.id : ev \in {x \in evs : x.kind = "Modified"}}

\* an event of any kind counts as a change of the font
changed_fonts_any_event(evs) == {ev.id : ev \in evs}

\* mark_changed_fonts_as_dirty: the ids of the fonts that changed
changed_fonts(evs) ==
    {ev.id : ev \in {x \in evs : x.kind \in {"Modified", "LoadedWithDependencies"}}}

\* the entity's ImageFontText as render_text takes it
TextOf(e) == [text |-> texts[e].text, font |-> texts[e].font,
              font_height |-> texts[e].font_height]

Init ==
    /\ pc = "idle"
    /\ image_fonts = [id \in FontIds |-> NoAsset]
    /\ images = [id \in ImageIds |-> NoAsset]
    /\ texts = [e \in Entities |->
                  [text |-> <<"a">>, font |-> 1,
                   font_height |-> IF e \in Sprites THEN None ELSE Some(AsF32(3)),
                   changed |-> TRUE, image |-> DefaultHandle]]
    /\ events = {}
    /\ pass_events = {}
    /\ logged = [e \in Entities |-> None]
    /\ pass_start = Idle
    /\ layout = Idle
    /\ size = Idle
    /\ char_map = Idle
    /\ grid = Idle
    /\ image_font_text = Idle
    /\ rendered = Idle

LayoutVars == <<layout, size, char_map, grid, image_font_text, rendered>>
PassVars == <<pass_events, logged, pass_start>>

\* Assets<ImageFont> queues Added for a new id, Modified for a known one
InsertEvent(id) ==
    IF image_fonts[id] = NoAsset THEN Event("Added", id) ELSE Event("Modified", id)

\* ImageFontLoader::load finishes for font id: the image is stored as the
\* labeled asset "texture", the font is stored, the events are queued.  A load
\* that fails or panics stores nothing and queues no AssetEvent<ImageFont>.
LoadFont ==
    /\ pc = "idle"
    /\ \E id \in FontIds, disk \in DiskLayouts :
          LET sz == Vec2(DiskImage.width, DiskImage.height)
              map == into_char_map(disk, sz)
              evs == events \cup {InsertEvent(id), Event("LoadedWithDependencies", id)}
          IN /\ map.kind = "Ok"
             /\ Cardinality(evs) <= MaxEvents
             /\ \E order \in IterOrders(map.map) :
                   image_fonts' = [image_fonts EXCEPT
                                      ![id] = from_char_map(id, sz, map.map, order)]
             /\ images' = [images EXCEPT ![id] = DiskImage]
             /\ events' = evs
    /\ UNCHANGED <<pc, texts, PassVars, LayoutVars>>

\* Assets<ImageFont>::insert of a font the program built
InsertFont ==
    /\ pc = "idle"
    /\ \E id \in ProgramFontIds, font \in BuiltFonts :
          /\ Cardinality(events \cup {InsertEvent(id)}) <= MaxEvents
          /\ image_fonts' = [image_fonts EXCEPT ![id] = font]
          /\ events' = events \cup {InsertEvent(id)}
    /\ UNCHANGED <<pc, images, texts, PassVars, LayoutVars>>

\* Assets<ImageFont>::remove
RemoveFont ==
    /\ pc = "idle"
    /\ \E id \in ProgramFontIds :
          /\ image_fonts[id] # NoAsset
          /\ Cardinality(events \cup {Event("Removed", id)}) <= MaxEvents
          /\ image_fonts' = [image_fonts EXCEPT ![id] = NoAsset]
          /\ events' = events \cup {Event("Removed", id)}
    /\ UNCHANGED <<pc, images, texts, PassVars, LayoutVars>>

\* some system writes an entity's ImageFontText::text
SetText ==
    /\ pc = "idle"
    /\ \E e \in Entities, t \in EntityTexts :
          /\ t # texts[e].text
          /\ texts' = [texts EXCEPT ![e].text = t, ![e].changed = TRUE]
    /\ UNCHANGED <<pc, image_fonts, images, events, PassVars, LayoutVars>>

\* mark_changed_fonts_as_dirty
MarkChangedFontsAsDirty ==
    /\ pc = "idle"
    /\ pc' = "marked"
    /\ pass_events' = events
    /\ pass_start' = [texts |-> texts, images |-> images, image_fonts |-> image_fonts]
    /\ events' = {}
    /\ texts' = [e \in Entities |->
                   IF texts[e].font \in changed_fonts(events)
                   THEN [texts[e] EXCEPT !.changed = TRUE]
                   ELSE texts[e]]
    /\ UNCHANGED <<image_fonts, images, logged, LayoutVars>>

\* the loop of render_sprites / render_ui_images over the entities es still
\* to visit, in query order
RECURSIVE RenderLoop(_, _, _, _)
RenderLoop(es, ts, imgs, lg) ==
    IF es = {} THEN [kind |-> "Ok", texts |-> ts, images |-> imgs, logged |-> lg]
    ELSE LET e == CHOOSE x \in es : \A y \in es : x <= y
             ift == [text |-> ts[e].text, font |-> ts[e].font,
                     font_height |-> ts[e].font_height]
             r == render_text(ift, image_fonts, imgs)
         IN IF ~ts[e].changed THEN RenderLoop(es \ {e}, ts, imgs, lg)
            ELSE IF r.kind = "Panic" THEN r
            ELSE IF r.kind = "Err"
            THEN RenderLoop(es \ {e}, [ts EXCEPT ![e].changed = FALSE], imgs,
                            [lg EXCEPT ![e] = Some(r.error)])
            ELSE LET free == {h \in RenderedIds : imgs[h] = NoAsset}
                     new == CHOOSE h \in free : \A g \in free : h <= g
                     old == ts[e].image
                     \* images.add, then the replaced handle is dropped
                     added == [imgs EXCEPT ![new] = r.image]
                     kept == IF old \in RenderedIds
                             THEN [added EXCEPT ![old] = NoAsset] ELSE added
                 IN RenderLoop(es \ {e},
                               [ts EXCEPT ![e].changed = FALSE, ![e].image = new],
                               kept, lg)

RenderSystem(es, after) ==
    LET r == RenderLoop(es, texts, images, logged) IN
    /\ IF r.kind = "Panic"
       THEN pc' = "panicked" /\ UNCHANGED <<texts, images, logged>>
       ELSE pc' = after /\ texts' = r.texts /\ images' = r.images
                       /\ logged' = r.logged
    /\ UNCHANGED <<image_fonts, events, pass_events, pass_start, LayoutVars>>

\* render_sprites, before or after render_ui_images
RenderSprites ==
    \/ pc = "marked" /\ RenderSystem(Sprites, "sprites")
    \/ pc = "ui" /\ RenderSystem(Sprites, "done")

\* render_ui_images, before or after render_sprites
RenderUiImages ==
    \/ pc = "marked" /\ RenderSystem(UiImages, "ui")
    \/ pc = "sprites" /\ RenderSystem(UiImages, "done")

\* the PostUpdate schedule ends
PostUpdateEnds ==
    /\ pc = "done"
    /\ pc' = "idle"
    /\ pass_events' = {}
    /\ pass_start' = Idle
    /\ logged' = [e \in Entities |-> None]
    /\ UNCHANGED <<image_fonts, images, texts, events, LayoutVars>>

Next ==
    \/ LoadFont
    \/ InsertFont
    \/ RemoveFont
    \/ SetText
    \/ MarkChangedFontsAsDirty
    \/ RenderSprites
    \/ RenderUiImages
    \/ PostUpdateEnds

Spec == Init /\ [][Next]_vars

(***************************************************************************)
(* Properties of into_char_map.  The grid is described here from the       *)
(* positions of the description's characters, not from its lines.          *)
(***************************************************************************)
Resolved == pc = "resolved"
ResolvedGrid == Resolved /\ layout.kind = "Automatic"

SetMax(S) == CHOOSE a \in S : \A b \in S : b <= a
SetMin(S) == CHOOSE a \in S : \A b \in S : a <= b

GlyphPositions(d) == {i \in 1..Len(d) : d[i] # NL}
FirstGlyph(d) == SetMin(GlyphPositions(d))
LastGlyph(d) == SetMax(GlyphPositions(d))
\* newlines between the first character that is no newline and position i
RowOf(d, i) == Cardinality({j \in FirstGlyph(d)..i : d[j] = NL})
\* characters between the newline before position i and position i
ColOf(d, i) == i - 1 - SetMax({j \in 1..(i - 1) : d[j] = NL} \cup {0})
ColumnCount(d) == SetMax({ColOf(d, i) + 1 : i \in GlyphPositions(d)})
RowCount(d) == RowOf(d, LastGlyph(d)) + 1
LastOccurrence(d, ch) == SetMax({i \in 1..Len(d) : d[i] = ch})
CellRect(d, sz, i) ==
    LET cw == sz.x \div ColumnCount(d)
        chh == sz.y \div RowCount(d)
        r == RowOf(d, i)
        c == ColOf(d, i)
    IN [min |-> Vec2(AsF32(cw * c), AsF32(chh * r)),
        max |-> Vec2(AsF32(cw * (c + 1)), AsF32(chh * (r + 1)))]

\* C5: grid resolution maps exactly the non-newline characters, each to the
\* cell of its last occurrence in row-major order, with cell sizes
\* W div column_count and H div row_count (truncated); "AB\nCD" on 4x4
\* gives 2x2 cells at (0,0), (2,0), (0,2), (2,2).
C5_GridResolution ==
    (ResolvedGrid /\ GlyphPositions(layout.str) # {}) =>
        LET d == layout.str IN
        /\ char_map.kind = "Ok"
        /\ DOMAIN char_map.map = {d[i] : i \in GlyphPositions(d)}
        /\ \A ch \in DOMAIN char_map.map :
              char_map.map[ch] = CellRect(d, size, LastOccurrence(d, ch))
        /\ grid.max_chars_per_line = ColumnCount(d)
        /\ grid.line_count = RowCount(d)
        /\ (d = ExampleGrid /\ size = Vec2(4, 4)) =>
              char_map.map =
                [ch \in {"A", "B", "C", "D"} |->
                   CASE ch = "A" -> RectNew(AsF32(0), AsF32(0), AsF32(2), AsF32(2))
                     [] ch = "B" -> RectNew(AsF32(2), AsF32(0), AsF32(4), AsF32(2))
                     [] ch = "C" -> RectNew(AsF32(0), AsF32(2), AsF32(2), AsF32(4))
                     [] ch = "D" -> RectNew(AsF32(2), AsF32(2), AsF32(4), AsF32(4))]

\* a grid with a character in two different cells and an inexact division
C5_Witness ==
    /\ ResolvedGrid
    /\ char_map.kind = "Ok"
    /\ size.x % grid.max_chars_per_line # 0
    /\ \E i, j \in GlyphPositions(layout.str) :
          /\ i < j
          /\ layout.str[i] = layout.str[j]
          /\ RowOf(layout.str, i) # RowOf(layout.str, j)
          /\ ColOf(layout.str, i) # ColOf(layout.str, j)
          /\ grid.rect_width > 0 /\ grid.rect_height > 0

\* C8: a grid description with no line left after newline stripping makes
\* resolution return a typed EmptyDescription error; it does not panic.
C8_EmptyDescriptionIsTypedError ==
    (ResolvedGrid /\ GlyphPositions(layout.str) = {}) =>
        /\ char_map.kind = "Err"
        /\ char_map.error = "EmptyDescription"

\* the description with one leading and one trailing newline removed
StripOne(d) ==
    LET a == IF d # <<>> /\ Head(d) = NL THEN Tail(d) ELSE d
    IN IF a # <<>> /\ a[Len(a)] = NL THEN SubSeq(a, 1, Len(a) - 1) ELSE a
Newlines(d) == Cardinality({i \in 1..Len(d) : d[i] = NL})

\* C9 as claimed: exactly one leading and one trailing newline are stripped;
\* further leading or trailing newlines stay as empty rows that count toward
\* row_count.
C9_StripsExactlyOneNewline ==
    (ResolvedGrid /\ char_map.kind = "Ok") =>
        grid.line_count = Newlines(StripOne(layout.str)) + 1

\* C9 (amended): all leading and all trailing newlines are stripped and
\* nothing else: they never count toward row_count nor shift a row, only
\* newlines between two other characters make rows, and every space of the
\* description is a mapped glyph cell.
C9_StripsAllOuterNewlines ==
    (ResolvedGrid /\ GlyphPositions(layout.str) # {}) =>
        LET d == layout.str
            core == SubSeq(d, FirstGlyph(d), LastGlyph(d))
        IN /\ char_map.kind = "Ok"
           /\ grid.line_count = Newlines(core) + 1
           /\ grid.rect_height = AsF32(size.y \div (Newlines(core) + 1))
           /\ char_map.map[d[FirstGlyph(d)]].min.y
                 = grid.rect_height * RowOf(d, LastOccurrence(d, d[FirstGlyph(d)]))
           /\ \A i \in 1..Len(d) : d[i] = " " => " " \in DOMAIN char_map.map

\* two leading newlines before a glyph and a space
C9_Witness ==
    /\ ResolvedGrid
    /\ char_map.kind = "Ok"
    /\ Len(layout.str) >= 4
    /\ layout.str[1] = NL /\ layout.str[2] = NL
    /\ layout.str[3] # NL
    /\ layout.str[4] = " "
    /\ size.y >= 2


(***************************************************************************)
(* Properties of render_text.                                              *)
(***************************************************************************)
Rendered == pc = "rendered"
TheFont == image_fonts[image_font_text.font]
FontLoaded == TheFont # NoAsset
TextureLoaded == FontLoaded /\ images[TheFont.texture] # NoAsset
TheTexture == images[TheFont.texture]
TheText == image_font_text.text

\* t with every character outside keys deleted, the others in place
RECURSIVE DeleteUnmapped(_, _)
DeleteUnmapped(t, keys) ==
    IF t = <<>> THEN <<>>
    ELSE IF Head(t) \in keys THEN <<Head(t)>> \o DeleteUnmapped(Tail(t), keys)
    ELSE DeleteUnmapped(Tail(t), keys)
MappedText == DeleteUnmapped(TheText, DOMAIN TheFont.index_map)

RECURSIVE SumSeq(_)
SumSeq(vs) == IF vs = <<>> THEN 0 ELSE Head(vs) + SumSeq(Tail(vs))

\* ceil of a fixed-point value that is not negative
Ceil(v) == CHOOSE n \in 0..v : n * Denom >= v /\ (n = 0 \/ (n - 1) * Denom < v)
GlyphW(c) == Ceil(RectWidth(GlyphRect(TheFont, c)))
GlyphH(c) == Ceil(RectHeight(GlyphRect(TheFont, c)))
\* the glyph's rectangle, and the block read for it, are inside the texture
GlyphInside(c) ==
    LET rect == GlyphRect(TheFont, c) IN
    /\ rect.max.x <= AsF32(TheTexture.width)
    /\ rect.max.y <= AsF32(TheTexture.height)
    /\ rect.min.x \div Denom + GlyphW(c) <= TheTexture.width
    /\ rect.min.y \div Denom + GlyphH(c) <= TheTexture.height

\* C1: a non-empty text of mapped characters whose glyphs are inside the
\* texture renders, at native size, to an image as wide as the sum of the
\* ceilings of its glyphs' widths and as tall as the ceiling of the tallest.
C1_NativeDimensions ==
    (/\ Rendered /\ TextureLoaded
     /\ image_font_text.font_height = None
     /\ TheText # <<>>
     /\ \A i \in 1..Len(TheText) :
           TheText[i] \in DOMAIN TheFont.index_map /\ GlyphInside(TheText[i]))
    => /\ rendered.kind = "Ok"
       /\ rendered.image.width = SumSeq([i \in 1..Len(TheText) |-> GlyphW(TheText[i])])
       /\ \E i \in 1..Len(TheText) : rendered.image.height = GlyphH(TheText[i])
       /\ \A i \in 1..Len(TheText) : rendered.image.height >= GlyphH(TheText[i])

\* C2 as claimed: for any font, a text without a mapped character renders
\* to Ok with a 0x0, zero-byte image, never to an error.
C2_EmptyTextNeverFails ==
    (Rendered /\ FontLoaded /\ MappedText = <<>>) =>
        /\ rendered.kind = "Ok"
        /\ rendered.image = [width |-> 0, height |-> 0, data |-> <<>>]

\* C2 (amended): for any font whose texture is in the image store, a text
\* without a mapped character renders to Ok with a 0x0, zero-byte image,
\* whatever font_height is: nothing is blitted or rescaled.
C2_EmptyTextShortCircuit ==
    (Rendered /\ TextureLoaded /\ MappedText = <<>>) =>
        /\ rendered.kind = "Ok"
        /\ rendered.image = [width |-> 0, height |-> 0, data |-> <<>>]

\* a non-empty text of unmapped characters, a font with glyphs, a target height
C2_Witness ==
    /\ Rendered /\ TextureLoaded
    /\ MappedText = <<>> /\ TheText # <<>>
    /\ DOMAIN TheFont.index_map # {}
    /\ image_font_text.font_height # None
    /\ rendered.kind = "Ok"

\* what render_text does with a text it need not filter
RenderUnfiltered(t) ==
    IF ~TextureLoaded THEN Err("MissingTextureAsset")
    ELSE IF t = <<>> THEN Ok(NewImage(0, 0), "default")
    ELSE Composite(TheFont, TheTexture, t, image_font_text.font_height)

\* C3: rendering a text gives, in result, width, height and bytes, what
\* rendering it with the unmapped characters deleted (the others kept in
\* order and number) gives; an unmapped character causes no error.
C3_FilterPreservesOrderAndCount ==
    (Rendered /\ FontLoaded) => rendered = RenderUnfiltered(MappedText)

\* a repeated mapped character around an unmapped one, rendered
C3_Witness ==
    /\ Rendered /\ TextureLoaded
    /\ rendered.kind = "Ok"
    /\ Len(MappedText) >= 2 /\ Len(TheText) > Len(MappedText)
    /\ \E i, j, k \in 1..Len(TheText) :
          /\ i < j /\ j < k
          /\ TheText[i] = TheText[k]
          /\ TheText[i] \in DOMAIN TheFont.index_map
          /\ TheText[j] \notin DOMAIN TheFont.index_map

\* C4: a mapped character whose rounded glyph block reaches beyond the
\* texture makes render_text return the error CopyFailure (no panic, no
\* partial image).
C4_OutOfBoundsIsCopyFailure ==
    (/\ Rendered /\ TextureLoaded
     /\ \E i \in 1..Len(MappedText) :
           LET rect == GlyphRect(TheFont, MappedText[i]) IN
           \/ rect.min.x \div Denom + GlyphW(MappedText[i]) > TheTexture.width
           \/ rect.min.y \div Denom + GlyphH(MappedText[i]) > TheTexture.height)
    => rendered = Err("CopyFailure")

\* w0 * h1 / h0 rounded to nearest, h1 in pixels
RoundedWidth(w0, h0, h1) == (2 * w0 * h1 + h0) \div (2 * h0)
NativeRender ==
    render_text([image_font_text EXCEPT !.font_height = None], image_fonts, images)

\* C6: with a native composite of w0 x h0, h0 > 0, a whole target height
\* h1 >= 1 gives an image of height h1 and width round(w0 * h1 / h0); no
\* target height gives w0 x h0.
C6_RescaleDimensions ==
    (/\ Rendered /\ TextureLoaded /\ MappedText # <<>>
     /\ NativeRender.kind = "Ok"
     /\ NativeRender.image.height > 0)
    => /\ rendered.kind = "Ok"
       /\ image_font_text.font_height = None =>
             /\ rendered.image.width = NativeRender.image.width
             /\ rendered.image.height = NativeRender.image.height
       /\ (/\ image_font_text.font_height # None
           /\ image_font_text.font_height.v % Denom = 0) =>
             /\ rendered.image.height = image_font_text.font_height.v \div Denom
             /\ rendered.image.width =
                   RoundedWidth(NativeRender.image.width,
                                NativeRender.image.height,
                                image_font_text.font_height.v \div Denom)

\* C10: an unresolvable font handle gives MissingImageFontAsset, a font
\* whose texture handle is unresolvable gives MissingTextureAsset; the font
\* is looked up first and both before the text is filtered, so the text
\* does not matter; no image comes back.
C10_MissingAssets ==
    Rendered =>
        /\ ~FontLoaded => rendered = Err("MissingImageFontAsset")
        /\ (FontLoaded /\ ~TextureLoaded) => rendered = Err("MissingTextureAsset")
        /\ TextureLoaded =>
              ~(rendered.kind = "Err"
                   /\ rendered.error \in {"MissingImageFontAsset", "MissingTextureAsset"})

\* a font without its texture and a text that filters to nothing
C10_Witness ==
    /\ Rendered /\ FontLoaded /\ ~TextureLoaded
    /\ MappedText = <<>>
    /\ rendered.kind = "Err"


(***************************************************************************)
(* Properties of the PostUpdate pass.                                      *)
(***************************************************************************)
\* the fonts for which the running pass read a reload event
ReloadedFonts ==
    {id \in FontIds :
        \/ Event("Modified", id) \in pass_events
        \/ Event("LoadedWithDependencies", id) \in pass_events}
\* what render_text gives for the entity against the stores as they are
RenderNow(e) == render_text(TextOf(e), image_fonts, images)
ShowsImage(e) == texts[e].image \in RenderedIds
ShowsCompositeOfCurrentFont(e) ==
    /\ RenderNow(e).kind = "Ok"
    /\ ShowsImage(e)
    /\ images[texts[e].image] = RenderNow(e).image

\* C7 as claimed: after a pass that read a reload event for a font, no text
\* of that font keeps showing an image composited from the replaced font:
\* the image it shows is the composite against the new map.
C7_NoStaleImageAfterReload ==
    pc = "done" =>
        \A e \in Entities :
            (texts[e].font \in ReloadedFonts /\ ShowsImage(e)) =>
                ShowsCompositeOfCurrentFont(e)

\* C7 (amended): a pass that reads a reload event for a font marks every
\* text of that font changed before rendering and runs render_text for it
\* in the same pass; every such text whose render_text succeeds shows,
\* after the pass, the composite against the new map.
C7_ReloadRecomposites ==
    /\ pc = "marked" =>
          \A e \in Entities : texts[e].font \in ReloadedFonts => texts[e].changed
    /\ pc = "done" =>
          \A e \in Entities :
              (texts[e].font \in ReloadedFonts /\ RenderNow(e).kind = "Ok") =>
                  /\ ~texts[e].changed
                  /\ ShowsCompositeOfCurrentFont(e)

\* a replaced font, and the sprite and the UI image both recomposited
C7_Witness ==
    /\ pc = "done"
    /\ \E id \in FontIds : Event("Modified", id) \in pass_events
    /\ \A e \in Entities :
          /\ texts[e].font \in ReloadedFonts
          /\ ShowsCompositeOfCurrentFont(e)
          /\ RenderNow(e).image.width > 0

\* the entities the running pass had to recomposite
Attempted(e) ==
    \/ pass_start.texts[e].changed
    \/ texts[e].font \in ReloadedFonts
\* the handles of the rendered images the store holds
StoredRendered == {h \in RenderedIds : images[h] # NoAsset}
BoundHandles == {texts[e].image : e \in Entities}

\* after a pass, an entity whose render_text returned an error has its
\* handle and the image behind it as before the pass and its error logged,
\* the store holds no image that no entity is bound to, and every other
\* entity that was recomposited shows its new composite
ErrorIsContained ==
    pc = "done" =>
        \A e \in Entities :
            (Attempted(e) /\ RenderNow(e).kind = "Err") =>
                /\ texts[e].image = pass_start.texts[e].image
                /\ texts[e].image \in RenderedIds =>
                      images[texts[e].image] = pass_start.images[texts[e].image]
                /\ logged[e] = Some(RenderNow(e).error)
                /\ StoredRendered \subseteq BoundHandles
                /\ \A o \in Entities \ {e} :
                      (Attempted(o) /\ RenderNow(o).kind = "Ok") =>
                          ShowsCompositeOfCurrentFont(o)

\* C11: a render-time failure never crashes the host (no system of the pass
\* panics) and only affects the failing text: its handle is left unchanged,
\* nothing is inserted for it, the error is logged, and the other entities
\* of the pass are rendered normally.
C11_RenderFailureNeverCrashes ==
    /\ pc # "panicked"
    /\ ErrorIsContained

(***************************************************************************)
(* Properties of the resolved rectangles and of the blit.                  *)
(***************************************************************************)
PositiveArea(r) == r.max.x > r.min.x /\ r.max.y > r.min.y

\* C12: every glyph rectangle the resolver returns has max_x > min_x and
\* max_y > min_y, for the three layout variants and every image size.
C12_RectanglesHavePositiveArea ==
    (Resolved /\ char_map.kind = "Ok") =>
        \A c \in DOMAIN char_map.map : PositiveArea(char_map.map[c])

\* the column the claim puts glyph i of the filtered text t at
CursorAt(t, i) == SumSeq([j \in 1..(i - 1) |-> GlyphW(t[j])])
OriginX(c) == GlyphRect(TheFont, c).min.x \div Denom
OriginY(c) == GlyphRect(TheFont, c).min.y \div Denom
WholePixel(c) ==
    LET rect == GlyphRect(TheFont, c) IN
    /\ rect.min.x % Denom = 0 /\ rect.min.y % Denom = 0
    /\ rect.max.x % Denom = 0 /\ rect.max.y % Denom = 0

\* the image img holds the glyphs of t side by side from column 0, each
\* from row 0, with nothing below a shorter glyph
PlacedSideBySide(img, t) ==
    /\ CursorAt(t, Len(t) + 1) = img.width
    /\ \A i \in 1..Len(t) :
          /\ CursorAt(t, i) + GlyphW(t[i]) <= img.width
          /\ GlyphH(t[i]) <= img.height
          /\ \A dx \in 0..(GlyphW(t[i]) - 1) :
                /\ \A dy \in 0..(GlyphH(t[i]) - 1) :
                      GetPixel(img, CursorAt(t, i) + dx, dy) =
                          GetPixel(TheTexture, OriginX(t[i]) + dx, OriginY(t[i]) + dy)
                /\ \A dy \in GlyphH(t[i])..(img.height - 1) :
                      GetPixel(img, CursorAt(t, i) + dx, dy) = 0

NativeRequest ==
    /\ Rendered /\ TextureLoaded
    /\ image_font_text.font_height = None
    /\ MappedText # <<>>
    /\ \A i \in 1..Len(MappedText) : GlyphInside(MappedText[i])

\* C13: at native size the glyphs of the filtered text are copied side by
\* side from column 0 and row 0, pixel for pixel, without overlap or gap;
\* the cursor after the last glyph is the output width, every block lies
\* inside the output, and the rows below a shorter glyph stay zero.
C13_BlitPlacement ==
    NativeRequest =>
        /\ rendered.kind = "Ok"
        /\ PlacedSideBySide(rendered.image, MappedText)

\* the same for fonts whose rectangles have whole-pixel corners
BlitPlacementWholePixel ==
    (NativeRequest /\ \A i \in 1..Len(MappedText) : WholePixel(MappedText[i])) =>
        /\ rendered.kind = "Ok"
        /\ PlacedSideBySide(rendered.image, MappedText)

(***************************************************************************)
(* Properties of the PostUpdate pass: not-ready fonts, change detection.   *)
(***************************************************************************)
\* the fonts for which the running pass read that loading finished
LoadedFonts ==
    {id \in FontIds : Event("LoadedWithDependencies", id) \in pass_events}
MissingAsset == {"MissingImageFontAsset", "MissingTextureAsset"}
\* the pass found the text never rendered and not changed: every composite
\* tried for it so far failed
UnrenderedAtStart(e) ==
    /\ pass_start.texts[e].image = DefaultHandle
    /\ ~pass_start.texts[e].changed

\* the only errors render_text gives the systems here are the missing-asset ones
OnlyMissingAssetsLogged ==
    \A e \in Entities : logged[e] # None => logged[e].v \in MissingAsset

\* C14: not-ready is transient, a text is never left unrendered once its
\* font and the font's source image are available: after a pass, a text
\* whose composite would succeed shows a rendered image.
C14_NeverLeftUnrendered ==
    pc = "done" =>
        \A e \in Entities : RenderNow(e).kind = "Ok" => ShowsImage(e)

\* what does hold: a pass that reads LoadedWithDependencies for a font marks
\* every text of that font changed; a text that was unrendered because its
\* composites failed with a missing asset is recomposited in that pass,
\* with its text as it was, and shows the composite if render_text succeeds.
RetriedWhenLoadedEventRead ==
    /\ OnlyMissingAssetsLogged
    /\ pc = "marked" =>
          \A e \in Entities : texts[e].font \in LoadedFonts => texts[e].changed
    /\ pc = "done" =>
          \A e \in Entities :
              (/\ UnrenderedAtStart(e)
               /\ texts[e].font \in LoadedFonts
               /\ RenderNow(e).kind = "Ok") =>
                  /\ texts[e].text = pass_start.texts[e].text
                  /\ ~texts[e].changed
                  /\ ShowsCompositeOfCurrentFont(e)



\* a built font whose source image arrived after the text's composite failed
\* with MissingTextureAsset: the pass after the arrival leaves the text as it was
TextureArrivedLater ==
    /\ pc = "done"
    /\ image_fonts[1] \in BuiltFonts
    /\ Event("LoadedWithDependencies", 2) \in pass_events
    /\ pass_start.image_fonts[1] = image_fonts[1]
    /\ \A e \in Entities :
          /\ UnrenderedAtStart(e)
          /\ RenderNow(e).kind = "Ok"
          /\ ~ShowsImage(e)

InPass == pc \in {"marked", "sprites", "ui", "done"}
Recomposited(e) == texts[e].image # pass_start.texts[e].image

\* C15: in a pass only a text that was changed, or whose font had a
\* Modified / LoadedWithDependencies event read in this pass, is marked and
\* recomposited; any other text keeps its handle and its image and nothing
\* is inserted or logged for it.  A successful recomposition binds the
\* text to one new image; no font, no font texture and no image of a text
\* that was not recomposited is altered, and the store holds no image
\* beyond those the texts are bound to.
C15_ChangeDrivenRecomposition ==
    /\ InPass => \A e \in Entities : texts[e].changed => Attempted(e)
    /\ pc = "done" =>
          /\ image_fonts = pass_start.image_fonts
          /\ \A id \in TextureIds : images[id] = pass_start.images[id]
          /\ StoredRendered = BoundHandles \cap RenderedIds
          /\ \A e \in Entities :
                /\ Recomposited(e) => Attempted(e)
                /\ ~Attempted(e) =>
                      /\ texts[e].image = pass_start.texts[e].image
                      /\ logged[e] = None
                      /\ ShowsImage(e) =>
                            images[texts[e].image] = pass_start.images[texts[e].image]
                /\ (Attempted(e) /\ RenderNow(e).kind = "Ok") =>
                      /\ Recomposited(e)
                      /\ ShowsCompositeOfCurrentFont(e)
                      /\ \A o \in Entities \ {e} : texts[o].image # texts[e].image

\* a pass that read an event which is no reload of the texts' font, with
\* one text changed and recomposited and the other left with its image
C15_Witness ==
    /\ pc = "done"
    /\ pass_events # {}
    /\ \E e, o \in Entities :
          /\ ~Attempted(e) /\ ShowsImage(e) /\ ~Recomposited(e)
          /\ Attempted(o) /\ Recomposited(o) /\ ShowsCompositeOfCurrentFont(o)

(***************************************************************************)
(* Properties of from_char_map.                                            *)
(***************************************************************************)
Built == pc = "built"
BuiltFont == image_fonts[1]

\* C16: for every char_map and every iteration order, index_map has
\* exactly the keys of char_map, its values are pairwise distinct indices
\* below the number of layout textures, the layout holds one texture per
\* key, and the rectangle looked up for a key is the one char_map gives it.
C16_FromCharMapConsistent ==
    Built =>
        LET keys == DOMAIN char_map.map
            textures == BuiltFont.layout.textures
        IN /\ DOMAIN BuiltFont.index_map = keys
           /\ Len(textures) = Cardinality(keys)
           /\ \A c \in keys : BuiltFont.index_map[c] \in 0..(Len(textures) - 1)
           /\ \A c, d \in keys :
                 c # d => BuiltFont.index_map[c] # BuiltFont.index_map[d]
           /\ \A c \in keys :
                 /\ textures[BuiltFont.index_map[c] + 1] = char_map.map[c]
                 /\ GlyphRect(BuiltFont, c) = char_map.map[c]

\* the 2x2 grid iterated last key first
C16_Witness ==
    /\ Built
    /\ layout = [kind |-> "Automatic", str |-> ExampleGrid]
    /\ size = Vec2(4, 4)
    /\ BuiltFont.index_map["A"] = 3
    /\ BuiltFont.index_map["D"] = 0
    /\ GlyphRect(BuiltFont, "D") = RectNew(AsF32(2), AsF32(2), AsF32(4), AsF32(4))

=============================================================================
